---- MODULE Spec2Model ----
(***************************************************************************)
(* Product catalogue server (server.js): the in-memory collection db, its  *)
(* mirrored document database.json, and the uploads directory, driven by   *)
(* the Create / Update / Delete routes.                                    *)
(*                                                                         *)
(* JavaScript strings are sequences of one-character strings; the value    *)
(* undefined of a missing form field is the one-element sequence Undefined.*)
(* A request is one step: the multer middleware stores the uploaded files  *)
(* under their generated names, then the synchronous handler runs to       *)
(* completion.  The read-only routes are the operators GetProduct and      *)
(* ListBody applied to the state.                                          *)
(***************************************************************************)
EXTENDS Integers, Sequences, FiniteSets, TLC

VARIABLES
    now,       \* Date.now()
    uploads,   \* the set of file names present in the uploads directory
    db,        \* db.products, the in-memory collection
    file,      \* the content of database.json
    faults,    \* how many I/O calls have failed so far
    resp,      \* the route and status of the last response sent
    conc       \* the requests in flight: the callbacks waiting for the
               \* thread, the handler that holds it, and the collection and
               \* document as the last finished handler left them

vars == <<now, uploads, db, file, faults, resp, conc>>

---------------------------------------------------------------------------
(* Bounds of the model *)

MaxTime == 2        \* Date.now() ranges over 1..MaxTime
MaxRnd == 2         \* Math.round(Math.random() * 1E9) ranges over 0..MaxRnd-1
MaxFiles == 2       \* files per request (the route allows up to 10)
MaxProducts == 2    \* products in the collection
MaxImages == 2      \* images of one product
MaxFaults == 1      \* failing I/O calls in one run
MaxFaultFiles == 1  \* files per request in the runs with failures
MaxTasks == 2       \* requests in flight at one time

---------------------------------------------------------------------------
(* JavaScript values *)

Undefined == <<"undefined">>

\* !s is false exactly for a non-empty string
Truthy(s) == s # Undefined /\ s # <<>>

Digits == <<"0", "1", "2", "3", "4", "5", "6", "7", "8", "9">>

IsDigit(c) == \E i \in 1..10 : Digits[i] = c

DigitVal(c) == (CHOOSE i \in 1..10 : Digits[i] = c) - 1

Num(n) == [k |-> "num", v |-> n]
NaN == [k |-> "NaN", v |-> 0]
Null == [k |-> "null", v |-> 0]

\* the value of the longest prefix of s made of digits, continuing from acc
RECURSIVE DigitsValue(_, _)
DigitsValue(s, acc) ==
    IF s = <<>> \/ ~IsDigit(Head(s)) THEN acc
    ELSE DigitsValue(Tail(s), 10 * acc + DigitVal(Head(s)))

\* parseFloat on strings without a fraction or an exponent: an optional sign,
\* then the longest run of digits; NaN when there is no digit
parseFloat(s) ==
    LET signed == s # <<>> /\ Head(s) \in {"-", "+"}
        t == IF signed THEN Tail(s) ELSE s
    IN  IF t = <<>> \/ ~IsDigit(Head(t)) THEN NaN
        ELSE IF signed /\ Head(s) = "-" THEN Num(0 - DigitsValue(t, 0))
        ELSE Num(DigitsValue(t, 0))

\* Number.prototype.toString of a non-negative integer
RECURSIVE toString(_)
toString(n) ==
    IF n < 10 THEN <<Digits[n + 1]>>
    ELSE toString(n \div 10) \o <<Digits[(n % 10) + 1]>>

\* description || ''
OrEmpty(s) == IF Truthy(s) THEN s ELSE <<>>

\* path.extname: from the last "." to the end, "" when there is none or when
\* the only "." is the first character
extname(name) ==
    LET dots == {i \in 1..Len(name) : name[i] = "."}
    IN  IF dots = {} THEN <<>>
        ELSE LET last == CHOOSE i \in dots : \A j \in dots : j <= i
             IN  IF last = 1 THEN <<>> ELSE SubSeq(name, last, Len(name))

Range(s) == {s[i] : i \in 1..Len(s)}

---------------------------------------------------------------------------
(* JSON *)

\* JSON.stringify of a product, read back: NaN becomes null (a property whose
\* value is undefined is dropped, which reads back as undefined)
JSONProduct(p) == [p EXCEPT !.price = IF p.price = NaN THEN Null ELSE p.price]

JSONProducts(ps) == [i \in 1..Len(ps) |-> JSONProduct(ps[i])]

---------------------------------------------------------------------------
(* storage: multer.diskStorage *)

\* storage.filename: Date.now() + '-' + random + extname(originalname)
filename(t, rnd, originalname) ==
    toString(t) \o <<"-">> \o toString(rnd) \o extname(originalname)

---------------------------------------------------------------------------
(* Inputs *)

Names == {<<>>, <<"A">>}
Prices == {<<>>, <<"5">>}
Descriptions == {Undefined}
OriginalNames == {<<"a", ".", "p">>}
MimeTypes == {<<"image/", "png">>, <<"text/", "plain">>}
Ids == {toString(t) : t \in 1..MaxTime}

\* the form fields of a request; at most one of name and price is left empty
Fields ==
    {f \in [name : Names, price : Prices, description : Descriptions] :
        Truthy(f.name) \/ Truthy(f.price)}

\* sequences over S of length at most n
SeqsUpTo(S, n) == UNION {[1..k -> S] : k \in 0..n}

\* one uploaded part: its original name, its declared type, and the value
\* Math.random yields when it is named
Parts == [originalname : OriginalNames, mimetype : MimeTypes, rnd : 0..(MaxRnd - 1)]

\* fileFilter: file.mimetype.startsWith('image/')
fileFilter(part) == part.mimetype # <<>> /\ Head(part.mimetype) = "image/"

\* the names multer stores a batch under, in upload order (req.files)
StoredNames(parts, t) ==
    [i \in 1..Len(parts) |-> filename(t, parts[i].rnd, parts[i].originalname)]

\* upload.array('images', 10): req.files of the batches the filter lets
\* through, by the time of the upload
Batches ==
    [t \in 1..MaxTime |->
        {StoredNames(parts, t) :
            parts \in SeqsUpTo({part \in Parts : fileFilter(part)}, MaxFiles)}]

\* the existingImages[] a client may send with an update: the images of the
\* product it edits, or none of them
KeptLists(products, id) ==
    {<<>>} \cup {products[i].images :
                    i \in {k \in 1..Len(products) : products[k].id = id}}

\* the I/O failures of one request: which unlinkSync call fails (0: none),
\* whether writeFileSync fails, and whether the failed write cuts the document off
NoFault == [failAt |-> 0, saveFails |-> FALSE, cut |-> FALSE]

Faults ==
    {[failAt |-> k, saveFails |-> FALSE, cut |-> FALSE] : k \in 1..MaxImages}
    \cup {[failAt |-> 0, saveFails |-> TRUE, cut |-> c] : c \in BOOLEAN}

---------------------------------------------------------------------------
(* fs *)

\* req.files.forEach(file => fs.unlinkSync(file.path)): unlinkSync throws when
\* the file is absent (ENOENT) or cannot be removed (failAt names the call that
\* fails so, 0 for none); the throw ends the loop
RECURSIVE UnlinkFrom(_, _, _, _)
UnlinkFrom(dir, paths, i, failAt) ==
    IF i > Len(paths) THEN [dir |-> dir, threw |-> FALSE]
    ELSE IF i = failAt \/ paths[i] \notin dir THEN [dir |-> dir, threw |-> TRUE]
    ELSE UnlinkFrom(dir \ {paths[i]}, paths, i + 1, failAt)

UnlinkAll(dir, paths, failAt) == UnlinkFrom(dir, paths, 1, failAt)

\* product.images.forEach(image => { if (fs.existsSync(p)) fs.unlinkSync(p) })
RECURSIVE UnlinkExistingFrom(_, _, _, _)
UnlinkExistingFrom(dir, paths, i, failAt) ==
    IF i > Len(paths) THEN [dir |-> dir, threw |-> FALSE]
    ELSE IF paths[i] \notin dir THEN UnlinkExistingFrom(dir, paths, i + 1, failAt)
    ELSE IF i = failAt THEN [dir |-> dir, threw |-> TRUE]
    ELSE UnlinkExistingFrom(dir \ {paths[i]}, paths, i + 1, failAt)

\* the same loop without the existsSync test
UnlinkExistingUnguarded(dir, paths, failAt) == UnlinkFrom(dir, paths, 1, failAt)

UnlinkExisting(dir, paths, failAt) == UnlinkExistingFrom(dir, paths, 1, failAt)

\* database.json after a completed write, and after a write that failed
Document(ps) == [ok |-> TRUE, products |-> JSONProducts(ps)]
Truncated == [ok |-> FALSE, products |-> <<>>]

\* saveDatabase: writeFileSync('database.json', JSON.stringify(db)); a write
\* that fails throws and leaves the old document or a cut-off one
\* a saveDatabase that catches the failure of its write
saveDatabaseSilent(products, old, fails, cut) ==
    IF fails THEN [file |-> IF cut THEN Truncated ELSE old, threw |-> FALSE]
    ELSE [file |-> Document(products), threw |-> FALSE]

saveDatabase(products, old, fails, cut) ==
    IF fails THEN [file |-> IF cut THEN Truncated ELSE old, threw |-> TRUE]
    ELSE [file |-> Document(products), threw |-> FALSE]

---------------------------------------------------------------------------
(* db.products *)

\* db.products.findIndex(p => p.id == productId), 0 for -1
findIndex(products, productId) ==
    LET hits == {i \in 1..Len(products) : products[i].id = productId}
    IN  IF hits = {} THEN 0 ELSE CHOOSE i \in hits : \A j \in hits : i <= j

\* db.products.splice(index, 1)
splice(products, index) ==
    [i \in 1..(Len(products) - 1) |->
        IF i < index THEN products[i] ELSE products[i + 1]]

---------------------------------------------------------------------------
(* Responses *)

ProductBody(p) == [kind |-> "product", product |-> JSONProduct(p)]
ListBody(ps) == [kind |-> "list", products |-> JSONProducts(ps)]
ErrorBody == [kind |-> "error"]
MessageBody == [kind |-> "message"]

\* what a handler leaves behind: the collection, the document, the directory
\* and the response
Outcome(products, document, dir, status, body) ==
    [db |-> products, file |-> document, uploads |-> dir,
     status |-> status, body |-> body]

\* what a handler reads of a request: req.params.id, the fields of req.body
\* it destructures, and req.files (existingImages[] is never read)
Request(id, name, price, description, files) ==
    [id |-> id, name |-> name, price |-> price,
     description |-> description, files |-> files]

\* no handler holds the thread
None == [op |-> "none", pc |-> "none"]

\* no request is in flight
Quiet(products, document) ==
    [waiting |-> {}, running |-> None,
     stable |-> [db |-> products, file |-> document]]

---------------------------------------------------------------------------
(* Handlers: the outcome of one request on the collection products, the     *)
(* document and the directory dir, which already holds the request's files  *)

\* app.get('/api/products/:id')
GetProduct(products, id) ==
    LET idx == findIndex(products, id)
    IN  IF idx # 0 THEN [status |-> 200, body |-> ProductBody(products[idx])]
        ELSE [status |-> 404, body |-> ErrorBody]

\* the record built by app.post('/api/products')
newProduct(req, t) ==
    [id |-> toString(t),
     name |-> req.name,
     price |-> parseFloat(req.price),
     description |-> OrEmpty(req.description),
     images |-> req.files]

\* the handler with db.products.unshift(newProduct) in place of push
CreateProductUnshift(req, products, document, dir, t, fault) ==
    IF ~Truthy(req.name) \/ ~Truthy(req.price) \/ Len(req.files) = 0
    THEN LET u == UnlinkAll(dir, req.files, fault.failAt)
         IN  IF u.threw
             THEN Outcome(products, document, u.dir, 500, ErrorBody)
             ELSE Outcome(products, document, u.dir, 400, ErrorBody)
    ELSE LET pushed == <<newProduct(req, t)>> \o products
             s == saveDatabase(pushed, document, fault.saveFails, fault.cut)
         IN  IF s.threw
             THEN Outcome(pushed, s.file, dir, 500, ErrorBody)
             ELSE Outcome(pushed, s.file, dir, 201, ProductBody(newProduct(req, t)))

\* app.post('/api/products')
CreateProduct(req, products, document, dir, t, fault) ==
    IF ~Truthy(req.name) \/ ~Truthy(req.price) \/ Len(req.files) = 0
    THEN LET u == UnlinkAll(dir, req.files, fault.failAt)
         IN  IF u.threw
             THEN Outcome(products, document, u.dir, 500, ErrorBody)
             ELSE Outcome(products, document, u.dir, 400, ErrorBody)
    ELSE LET pushed == Append(products, newProduct(req, t))
             s == saveDatabase(pushed, document, fault.saveFails, fault.cut)
         IN  IF s.threw
             THEN Outcome(pushed, s.file, dir, 500, ErrorBody)
             ELSE Outcome(pushed, s.file, dir, 201, ProductBody(newProduct(req, t)))

\* the record with the uploaded files in place of the images it had
updatedProductNewImages(req, old) ==
    [old EXCEPT !.name = req.name,
                !.price = parseFloat(req.price),
                !.description = OrEmpty(req.description),
                !.images = req.files]

\* the record built by app.post('/api/products/:id')
updatedProduct(req, old) ==
    [old EXCEPT !.name = req.name,
                !.price = parseFloat(req.price),
                !.description = OrEmpty(req.description),
                !.images = old.images \o req.files]

\* an update that rewrites every product instead of the one at productIndex
UpdateProductEvery(req, products, document, dir, fault) ==
    LET productIndex == findIndex(products, req.id)
    IN  IF productIndex = 0
        THEN LET u == UnlinkAll(dir, req.files, fault.failAt)
             IN  IF u.threw
                 THEN Outcome(products, document, u.dir, 500, ErrorBody)
                 ELSE Outcome(products, document, u.dir, 404, ErrorBody)
        ELSE LET updated == updatedProduct(req, products[productIndex])
                 replaced == [k \in 1..Len(products) |-> updatedProduct(req, products[k])]
                 s == saveDatabase(replaced, document, fault.saveFails, fault.cut)
             IN  IF s.threw
                 THEN Outcome(replaced, s.file, dir, 500, ErrorBody)
                 ELSE Outcome(replaced, s.file, dir, 200, ProductBody(updated))

\* an update that unlinks the files of the version it replaces
UpdateProductReplacing(req, products, document, dir, fault) ==
    LET productIndex == findIndex(products, req.id)
    IN  IF productIndex = 0
        THEN LET u == UnlinkAll(dir, req.files, fault.failAt)
             IN  IF u.threw
                 THEN Outcome(products, document, u.dir, 500, ErrorBody)
                 ELSE Outcome(products, document, u.dir, 404, ErrorBody)
        ELSE LET updated == updatedProduct(req, products[productIndex])
                 replaced == [products EXCEPT ![productIndex] = updated]
                 u == UnlinkExisting(dir, products[productIndex].images, 0)
                 s == saveDatabase(replaced, document, fault.saveFails, fault.cut)
             IN  IF s.threw
                 THEN Outcome(replaced, s.file, u.dir, 500, ErrorBody)
                 ELSE Outcome(replaced, s.file, u.dir, 200, ProductBody(updated))

\* app.post('/api/products/:id')
UpdateProduct(req, products, document, dir, fault) ==
    LET productIndex == findIndex(products, req.id)
    IN  IF productIndex = 0
        THEN LET u == UnlinkAll(dir, req.files, fault.failAt)
             IN  IF u.threw
                 THEN Outcome(products, document, u.dir, 500, ErrorBody)
                 ELSE Outcome(products, document, u.dir, 404, ErrorBody)
        ELSE LET updated == updatedProduct(req, products[productIndex])
                 replaced == [products EXCEPT ![productIndex] = updated]
                 s == saveDatabase(replaced, document, fault.saveFails, fault.cut)
             IN  IF s.threw
                 THEN Outcome(replaced, s.file, dir, 500, ErrorBody)
                 ELSE Outcome(replaced, s.file, dir, 200, ProductBody(updated))

\* the handler without the test of line 155: splice(-1, 1) removes the last
\* product, and on an empty collection product.images throws
DeleteProductUnchecked(id, products, document, dir, fault) ==
    LET found == findIndex(products, id)
        productIndex == IF found = 0 THEN Len(products) ELSE found
    IN  IF productIndex = 0
        THEN Outcome(products, document, dir, 500, ErrorBody)
        ELSE LET u == UnlinkExisting(dir, products[productIndex].images, fault.failAt)
                 spliced == splice(products, productIndex)
                 s == saveDatabase(spliced, document, fault.saveFails, fault.cut)
             IN  IF u.threw
                 THEN Outcome(products, document, u.dir, 500, ErrorBody)
                 ELSE IF s.threw
                 THEN Outcome(spliced, s.file, u.dir, 500, ErrorBody)
                 ELSE Outcome(spliced, s.file, u.dir, 200, MessageBody)

\* app.delete('/api/products/:id')
DeleteProduct(id, products, document, dir, fault) ==
    LET productIndex == findIndex(products, id)
    IN  IF productIndex = 0
        THEN Outcome(products, document, dir, 404, ErrorBody)
        ELSE LET u == UnlinkExisting(dir, products[productIndex].images, fault.failAt)
                 spliced == splice(products, productIndex)
                 s == saveDatabase(spliced, document, fault.saveFails, fault.cut)
             IN  IF u.threw
                 THEN Outcome(products, document, u.dir, 500, ErrorBody)
                 ELSE IF s.threw
                 THEN Outcome(spliced, s.file, u.dir, 500, ErrorBody)
                 ELSE Outcome(spliced, s.file, u.dir, 200, MessageBody)

---------------------------------------------------------------------------
(* The state machine *)

\* a fresh deployment, after loadDatabase found no document and wrote one
Init ==
    /\ now = 1
    /\ uploads = {}
    /\ db = <<>>
    /\ file = Document(<<>>)
    /\ faults = 0
    /\ resp = [op |-> "none", status |-> 0]
    /\ conc = Quiet(db, file)

\* the clock advances between two requests
Tick ==
    /\ now < MaxTime
    /\ now' = now + 1
    /\ UNCHANGED <<uploads, db, file, faults, resp, conc>>

\* the effect of a handler's outcome; a failing I/O call is counted, and a
\* failure is drawn only where it makes a call throw
Apply(op, out, fault) ==
    /\ fault = NoFault \/ out.status = 500
    /\ db' = out.db
    /\ file' = out.file
    /\ uploads' = out.uploads
    /\ resp' = [op |-> op, status |-> out.status]
    /\ faults' = IF fault = NoFault THEN faults ELSE faults + 1
    /\ conc' = Quiet(out.db, out.file)
    /\ UNCHANGED now

\* the outcome of POST /api/products in the current state: the middleware has
\* stored the files, then the handler runs
CreateOutcome(f, files, fault) ==
    CreateProduct(Request(Undefined, f.name, f.price, f.description, files),
                  db, file, uploads \cup Range(files), now, fault)

\* the outcome of POST /api/products/:id in the current state
UpdateOutcome(id, f, files, fault) ==
    UpdateProduct(Request(id, f.name, f.price, f.description, files),
                  db, file, uploads \cup Range(files), fault)

\* the outcome of DELETE /api/products/:id in the current state
DeleteOutcome(id, fault) == DeleteProduct(id, db, file, uploads, fault)

\* POST /api/products
Create(f, files, fault) ==
    \E out \in {CreateOutcome(f, files, fault)} :
        /\ Len(out.db) <= MaxProducts
        /\ Apply("create", out, fault)

\* POST /api/products/:id
Update(id, f, files, fault) ==
    \E out \in {UpdateOutcome(id, f, files, fault)} :
        /\ \A k \in 1..Len(out.db) : Len(out.db[k].images) <= MaxImages
        /\ Apply("update", out, fault)

\* DELETE /api/products/:id
Delete(id, fault) ==
    \E out \in {DeleteOutcome(id, fault)} : Apply("delete", out, fault)

\* every I/O call succeeds
Next ==
    \/ Tick
    \/ \E f \in Fields, files \in Batches[now] : Create(f, files, NoFault)
    \/ \E id \in Ids, f \in Fields, files \in Batches[now] : Update(id, f, files, NoFault)
    \/ \E id \in Ids : Delete(id, NoFault)

Spec == Init /\ [][Next]_vars

\* the failures the next request may meet
MayFail == IF faults < MaxFaults THEN Faults \cup {NoFault} ELSE {NoFault}

\* the requests of the runs with failures: one file at most, and the name
\* the only field left empty
SmallBatches == [t \in 1..MaxTime |-> {files \in Batches[t] : Len(files) <= MaxFaultFiles}]
SmallFields == {f \in Fields : Truthy(f.price)}

\* unlinkSync and writeFileSync may fail
FaultNext ==
    \/ Tick
    \/ \E f \in SmallFields, files \in SmallBatches[now], fault \in MayFail :
            Create(f, files, fault)
    \/ \E id \in Ids, f \in SmallFields, files \in SmallBatches[now], fault \in MayFail :
            Update(id, f, files, fault)
    \/ \E id \in Ids, fault \in MayFail : Delete(id, fault)

FaultSpec == Init /\ [][FaultNext]_vars

---------------------------------------------------------------------------
(* Startup *)

\* the file names the images lists of a collection refer to
Referenced(products) == UNION {Range(products[i].images) : i \in 1..Len(products)}

\* no database.json in the working directory
Absent == [ok |-> FALSE, products |-> <<>>, absent |-> TRUE]

\* a loadDatabase whose catch block does not write the document
loadDatabaseNoSave(document) ==
    IF document.ok
    THEN [db |-> document.products, file |-> document, logged |-> FALSE]
    ELSE [db |-> <<>>, file |-> document, logged |-> TRUE]

\* loadDatabase: readFileSync throws when the document is absent, JSON.parse
\* when it is cut off; the catch block logs and saves the db of line 44
loadDatabase(document) ==
    IF document.ok
    THEN [db |-> document.products, file |-> document, logged |-> FALSE]
    ELSE [db |-> <<>>,
          file |-> saveDatabase(<<>>, document, FALSE, FALSE).file,
          logged |-> TRUE]

\* the collections an earlier run may have left in the document
StartCollections ==
    {<<>>} \cup
    {<<newProduct(Request(Undefined, <<"A">>, price, Undefined, files), 1)>> :
        price \in {<<"5">>, <<"x">>}, files \in {b \in SmallBatches[1] : Len(b) > 0}}

\* what the process may find on disk when it starts
StartDocuments == {Absent, Truncated} \cup {Document(ps) : ps \in StartCollections}

\* the module is being loaded: db is the literal of line 44 and loadDatabase
\* has not run yet
BootInit ==
    /\ now = 1
    /\ db = <<>>
    /\ file \in StartDocuments
    /\ uploads = Referenced(file.products)
    /\ faults = 0
    /\ resp = [op |-> "boot", status |-> 0]
    /\ conc = Quiet(db, file)

\* loadDatabase() of line 60
Load ==
    /\ resp.op = "boot"
    /\ \E out \in {loadDatabase(file)} :
        /\ db' = out.db
        /\ file' = out.file
        /\ resp' = [op |-> IF out.logged THEN "start-empty" ELSE "start", status |-> 0]
        /\ conc' = Quiet(out.db, out.file)
    /\ UNCHANGED <<now, uploads, faults>>

\* the server answers requests once the module has been loaded
BootNext ==
    \/ Load
    \/ resp.op # "boot" /\ Tick
    \/ resp.op # "boot" /\ \E f \in SmallFields, files \in SmallBatches[now] :
            Create(f, files, NoFault)
    \/ resp.op # "boot" /\ \E id \in Ids, f \in SmallFields, files \in SmallBatches[now] :
            Update(id, f, files, NoFault)
    \/ resp.op # "boot" /\ \E id \in Ids : Delete(id, NoFault)

BootSpec == BootInit /\ [][BootNext]_vars

---------------------------------------------------------------------------
(* Concurrent requests.  Node runs one callback at a time: a handler, once  *)
(* entered, keeps the thread until it returns or awaits.  Requests overlap  *)
(* in their upload phases and in the order their handlers are entered.      *)

\* the handler holds no thread
Free == conc.running.op = "none"

\* what a sequential run of a handler leaves: collection, document, status
Unset == [db |-> <<>>, file |-> Truncated, status |-> 0]

\* a request whose files multer has stored and whose handler has not started
Task(op, req) ==
    [op |-> op, req |-> req, pc |-> "check", idx |-> 0, status |-> 0,
     expect |-> Unset]

\* the requests in flight
InFlight == conc.waiting \cup (IF Free THEN {} ELSE {conc.running})

\* the uploads of the concurrent runs: no file, or one file whose name has
\* the random suffix 0
ConcBatches ==
    [t \in 1..MaxTime |->
        {<<>>} \cup {StoredNames(<<part>>, t) :
                        part \in {q \in Parts : fileFilter(q) /\ q.rnd = 0}}]

\* the requests of the concurrent runs
ConcRequests ==
    {Task("create", Request(Undefined, f.name, f.price, f.description, files)) :
        f \in SmallFields, files \in ConcBatches[now]}
    \cup {Task("update", Request(id, <<"A">>, <<"5">>, Undefined, files)) :
            id \in Ids, files \in ConcBatches[now]}
    \cup {Task("delete", Request(id, Undefined, Undefined, Undefined, <<>>)) :
            id \in Ids}

\* the handler of task t run in one piece on the current state
Sequential(t) ==
    LET out == CASE t.op = "create" ->
                        CreateProduct(t.req, db, file, uploads, now, NoFault)
                 [] t.op = "update" ->
                        UpdateProduct(t.req, db, file, uploads, NoFault)
                 [] t.op = "delete" ->
                        DeleteProduct(t.req.id, db, file, uploads, NoFault)
    IN  [db |-> out.db, file |-> out.file, status |-> out.status]

\* a handler that awaits its write: the thread is released before the save
YieldsBeforeSave(op, pc) == pc = "save"

\* whether a handler gives up the thread before the statement at pc: the
\* handlers are plain callbacks without await, and every fs call is a Sync one
Yields(op, pc) == FALSE

\* the state and the handler's position after one statement
Effect(products, document, dir, idx, status, pc) ==
    [db |-> products, file |-> document, uploads |-> dir,
     idx |-> idx, status |-> status, pc |-> pc]

\* the statements of app.post('/api/products')
CreateStatement(t) ==
    CASE t.pc = "check" ->
            Effect(db, file, uploads, 0, 0,
                   IF ~Truthy(t.req.name) \/ ~Truthy(t.req.price) \/ Len(t.req.files) = 0
                   THEN "cleanup" ELSE "mutate")
      [] t.pc = "cleanup" ->
            LET u == UnlinkAll(uploads, t.req.files, 0)
            IN  Effect(db, file, u.dir, 0, IF u.threw THEN 500 ELSE 400, "respond")
      [] t.pc = "mutate" ->
            Effect(Append(db, newProduct(t.req, now)), file, uploads, 0, 0, "save")
      [] t.pc = "save" ->
            Effect(db, saveDatabase(db, file, FALSE, FALSE).file, uploads, 0, 201, "respond")

\* the statements of app.post('/api/products/:id')
UpdateStatement(t) ==
    CASE t.pc = "check" ->
            LET productIndex == findIndex(db, t.req.id)
            IN  Effect(db, file, uploads, productIndex, 0,
                       IF productIndex = 0 THEN "cleanup" ELSE "mutate")
      [] t.pc = "cleanup" ->
            LET u == UnlinkAll(uploads, t.req.files, 0)
            IN  Effect(db, file, u.dir, 0, IF u.threw THEN 500 ELSE 404, "respond")
      [] t.pc = "mutate" ->
            Effect([db EXCEPT ![t.idx] = updatedProduct(t.req, db[t.idx])],
                   file, uploads, t.idx, 0, "save")
      [] t.pc = "save" ->
            Effect(db, saveDatabase(db, file, FALSE, FALSE).file, uploads, t.idx, 200,
                   "respond")

\* the statements of app.delete('/api/products/:id')
DeleteStatement(t) ==
    CASE t.pc = "check" ->
            LET productIndex == findIndex(db, t.req.id)
            IN  IF productIndex = 0
                THEN Effect(db, file, uploads, 0, 404, "respond")
                ELSE Effect(db, file, uploads, productIndex, 0, "unlink")
      [] t.pc = "unlink" ->
            Effect(db, file, UnlinkExisting(uploads, db[t.idx].images, 0).dir,
                   t.idx, 0, "mutate")
      [] t.pc = "mutate" ->
            Effect(splice(db, t.idx), file, uploads, t.idx, 0, "save")
      [] t.pc = "save" ->
            Effect(db, saveDatabase(db, file, FALSE, FALSE).file, uploads, t.idx, 200,
                   "respond")

Statement(t) ==
    CASE t.op = "create" -> CreateStatement(t)
      [] t.op = "update" -> UpdateStatement(t)
      [] t.op = "delete" -> DeleteStatement(t)

\* a request arrives and multer stores its files, whatever the thread is doing
Start(t) ==
    /\ Cardinality(InFlight) < MaxTasks
    /\ t.op = "create" =>
        Len(db) + Cardinality({u \in InFlight : u.op = "create"}) < MaxProducts
    /\ t.op = "update" =>
        \A i \in 1..Len(db) :
            db[i].id = t.req.id =>
                Len(db[i].images) + Len(t.req.files)
                + MaxFaultFiles * Cardinality({u \in InFlight :
                        u.op = "update" /\ u.req.id = t.req.id /\ u.req.files # <<>>})
                    <= MaxImages
    /\ uploads' = uploads \cup Range(t.req.files)
    /\ conc' = [conc EXCEPT !.waiting = @ \cup {t}]
    /\ UNCHANGED <<now, db, file, faults, resp>>

\* the event loop calls a waiting handler
Enter(t) ==
    /\ Free
    /\ t \in conc.waiting
    /\ conc' = [conc EXCEPT
                    !.waiting = @ \ {t},
                    !.running = IF t.pc = "check"
                                THEN [t EXCEPT !.expect = Sequential(t)] ELSE t]
    /\ UNCHANGED <<now, uploads, db, file, faults, resp>>

\* the running handler executes its next statement
Exec ==
    /\ ~Free
    /\ conc.running.pc # "respond"
    /\ \E e \in {Statement(conc.running)} :
        \E t \in {[conc.running EXCEPT !.pc = e.pc, !.idx = e.idx, !.status = e.status]} :
            /\ db' = e.db
            /\ file' = e.file
            /\ uploads' = e.uploads
            /\ conc' = IF Yields(t.op, t.pc)
                       THEN [conc EXCEPT !.waiting = @ \cup {t}, !.running = None]
                       ELSE [conc EXCEPT !.running = t]
    /\ UNCHANGED <<now, faults, resp>>

\* the running handler sends its response and returns
Respond ==
    /\ ~Free
    /\ conc.running.pc = "respond"
    /\ resp' = [op |-> conc.running.op, status |-> conc.running.status]
    /\ conc' = [conc EXCEPT !.running = None,
                            !.stable = [db |-> db, file |-> file]]
    /\ UNCHANGED <<now, uploads, db, file, faults>>

\* GET /api/products and GET /api/products/:id: a read is a handler too, and
\* sends what db.products holds when it is called
Read ==
    /\ Free
    /\ resp' = [op |-> "list", status |-> 200]
    /\ UNCHANGED <<now, uploads, db, file, faults, conc>>

\* a handler reads the clock once, so time is let pass between handlers only
ConcNext ==
    \/ Free /\ Tick
    \/ \E t \in ConcRequests : Start(t)
    \/ \E t \in conc.waiting : Enter(t)
    \/ Exec
    \/ Respond
    \/ Read

ConcSpec == Init /\ [][ConcNext]_vars

---------------------------------------------------------------------------
(* Properties.  A property of a request is stated of its outcome in every   *)
(* reachable state: the state is the one before the request, the outcome    *)
(* holds the collection, document and directory after it.                   *)

\* the form fields a request may carry, a missing field included
AnyFields ==
    [name : Names \cup {Undefined}, price : Prices \cup {Undefined},
     description : Descriptions]

\* C1: no dangling reference: every file name in the images list of a product
\* of the store names a file present in the uploads directory.
C1_NoDanglingReference == Referenced(db) \subseteq uploads

\* C2: no orphan file: once a request has been answered, whatever the
\* response, every file in the uploads directory is referenced by a product
\* of the store, and by the persisted document.
C2_NoOrphanFile ==
    /\ uploads \subseteq Referenced(db)
    /\ uploads \subseteq Referenced(file.products)

\* C3: a Create with an empty or missing name or price, or with no file, is
\* answered 400 and leaves the collection, the document and the directory as
\* they were before the request.
C3_CreateInvalidRejected ==
    \A f \in AnyFields, files \in Batches[now] :
        (~Truthy(f.name) \/ ~Truthy(f.price) \/ files = <<>>) =>
            LET out == CreateOutcome(f, files, NoFault)
            IN  /\ out.status = 400
                /\ out.db = db
                /\ out.file = file
                /\ out.uploads = uploads

\* C4: an Update of an id no product has is answered 404 and leaves the
\* collection, the document and the directory as they were before the request.
C4_UpdateUnknownRejected ==
    \A id \in Ids, f \in AnyFields, files \in Batches[now] :
        findIndex(db, id) = 0 =>
            LET out == UpdateOutcome(id, f, files, NoFault)
            IN  /\ out.status = 404
                /\ out.db = db
                /\ out.file = file
                /\ out.uploads = uploads

\* C5: an Update of an existing product is answered 200 with images equal to
\* the kept list the caller declares (existingImages) followed by the newly
\* stored names.
C5_UpdateKeptThenNew ==
    \A id \in Ids, f \in AnyFields, files \in Batches[now] :
        \A kept \in KeptLists(db, id) :
            findIndex(db, id) # 0 =>
                LET out == UpdateOutcome(id, f, files, NoFault)
                IN  /\ out.status = 200
                    /\ out.body.product.images = kept \o files
                    /\ out.db[findIndex(db, id)].images = kept \o files

\* C6: after a Delete answered 200, Get of the same id is answered 404 and
\* none of the deleted product's files is left in the uploads directory.
C6_CascadeDelete ==
    \A id \in Ids :
        LET out == DeleteOutcome(id, NoFault)
        IN  out.status = 200 =>
                /\ GetProduct(out.db, id).status = 404
                /\ Range(db[findIndex(db, id)].images) \cap out.uploads = {}

\* C7: after a Create answered 201, Get of the returned id returns the record
\* Create returned, whose images list is as long as the batch of files.
C7_CreateRoundTrip ==
    \A f \in AnyFields, files \in Batches[now] :
        LET out == CreateOutcome(f, files, NoFault)
        IN  out.status = 201 =>
                /\ GetProduct(out.db, out.body.product.id) = [status |-> 200, body |-> out.body]
                /\ Len(out.body.product.images) = Len(files)

\* C8: no request deletes a file that a product remaining in the store refers
\* to: such a file, present once the request's files are stored, is present
\* after the request.
SurvivorsKeepFiles(out, files) ==
    (Referenced(out.db) \cap (uploads \cup Range(files))) \subseteq out.uploads

C8_SurvivingFilesKept ==
    /\ \A f \in AnyFields, files \in Batches[now] :
            SurvivorsKeepFiles(CreateOutcome(f, files, NoFault), files)
    /\ \A id \in Ids, f \in AnyFields, files \in Batches[now] :
            SurvivorsKeepFiles(UpdateOutcome(id, f, files, NoFault), files)
    /\ \A id \in Ids : SurvivorsKeepFiles(DeleteOutcome(id, NoFault), <<>>)

\* C9: no two products of the store have the same id.
C9_UniqueIds ==
    \A i, j \in 1..Len(db) : db[i].id = db[j].id => i = j

\* C10: no file name is in the images lists of two products, nor twice in
\* one list.
C10_ExclusiveOwnership ==
    /\ \A i, j \in 1..Len(db) :
            i # j => Range(db[i].images) \cap Range(db[j].images) = {}
    /\ \A i \in 1..Len(db) :
            \A m, n \in 1..Len(db[i].images) :
                db[i].images[m] = db[i].images[n] => m = n

\* the products of the store some of whose image files are absent from the
\* uploads directory
MissingSomeFile(i) == ~(Range(db[i].images) \subseteq uploads)

\* C11: a Delete of an existing product one or more of whose image files are
\* already absent is answered 200, removes the files that remain and removes
\* the product from the store.
C11_DeleteToleratesAbsentFiles ==
    \A id \in Ids :
        LET idx == findIndex(db, id)
            out == DeleteOutcome(id, NoFault)
        IN  (idx # 0 /\ MissingSomeFile(idx)) =>
                /\ out.status = 200
                /\ out.db = splice(db, idx)
                /\ Range(db[idx].images) \cap out.uploads = {}

\* a product with one image file absent and another present, whose Delete is
\* answered 200
C11_Witness ==
    \E id \in Ids :
        LET idx == findIndex(db, id)
        IN  /\ idx # 0
            /\ MissingSomeFile(idx)
            /\ Range(db[idx].images) \cap uploads # {}
            /\ DeleteOutcome(id, NoFault).status = 200
            /\ DeleteOutcome(id, NoFault).uploads # uploads

\* the statuses that report a mutation as done
Success == {200, 201}

\* the outcome reports success only with the document equal to the collection
\* it holds, and never after a write that failed
Persisted(out, fault) ==
    out.status \in Success => (out.file = Document(out.db) /\ ~fault.saveFails)

\* C12: persist before success: whenever a Create, Update or Delete is
\* answered 201 or 200 the persisted document equals the in-memory collection
\* with that mutation in it; a mutation whose save failed is not answered
\* with success.
C12_PersistBeforeSuccess ==
    /\ resp.status \in Success => file = Document(db)
    /\ \A fault \in Faults \cup {NoFault} :
        /\ \A f \in SmallFields, files \in SmallBatches[now] :
            /\ Persisted(CreateOutcome(f, files, fault), fault)
            /\ \A id \in Ids : Persisted(UpdateOutcome(id, f, files, fault), fault)
        /\ \A id \in Ids : Persisted(DeleteOutcome(id, fault), fault)

\* a Create answered 201 after an earlier save had failed, in a store that
\* now holds two products, both in the document
C12_Witness ==
    /\ resp = [op |-> "create", status |-> 201]
    /\ faults = MaxFaults
    /\ Len(db) = 2
    /\ file = Document(db)

\* a non-empty string name and a non-negative numeric price
ValidFields(p) ==
    /\ Truthy(p.name)
    /\ p.price.k = "num"
    /\ p.price.v >= 0

\* C14: field validity: in every state Create and Update can reach, every
\* product of the store has a non-empty string name and a non-negative numeric
\* price.
C14_FieldValidity == \A i \in 1..Len(db) : ValidFields(db[i])

\* the stock and pinned fields of the form, as the page submits them
Stocks == {Undefined, <<"0">>, <<"3">>}
Pinneds == {Undefined, <<"t", "r", "u", "e">>, <<"f", "a", "l", "s", "e">>}

\* req.body with the stock and pinned fields the page appends to the form
WithStock(req, stock, pinned) == req @@ [stock |-> stock, pinned |-> pinned]

\* the record p carries the submitted stock (0 if absent) and the submitted
\* flag (false if absent)
CarriesStock(p, stock, pinned) ==
    /\ {"stock", "pinned"} \subseteq DOMAIN p
    /\ p.stock = (IF stock = Undefined THEN Num(0) ELSE parseFloat(stock))
    /\ p.pinned = (pinned = <<"t", "r", "u", "e">>)

\* C15: stock and pinned are part of the record: the product a Create returns
\* carries the submitted stock (0 if absent) and the submitted pinned flag
\* (false if absent), and a successful Update replaces both with the values
\* of its request.
C15_StockAndPinned ==
    \A stock \in Stocks, pinned \in Pinneds, f \in Fields, files \in Batches[now] :
        /\ \E out \in {CreateProduct(
                    WithStock(Request(Undefined, f.name, f.price, f.description, files),
                              stock, pinned),
                    db, file, uploads \cup Range(files), now, NoFault)} :
                out.status = 201 => CarriesStock(out.body.product, stock, pinned)
        /\ \A id \in Ids :
            \E out \in {UpdateProduct(
                    WithStock(Request(id, f.name, f.price, f.description, files),
                              stock, pinned),
                    db, file, uploads \cup Range(files), NoFault)} :
                out.status = 200 => CarriesStock(out.body.product, stock, pinned)

\* C16: load on startup: when the persisted document is absent or cannot be
\* parsed, loading leaves the empty collection in memory and an empty document
\* on disk; otherwise the collection in memory is the one the document holds.
C16_LoadOnStartup ==
    [][resp.op = "boot" =>
        IF file.ok THEN db' = file.products /\ file' = file
        ELSE db' = <<>> /\ file' = Document(<<>>)]_vars

\* the process has started without a readable document: it logged so, holds
\* the empty collection and has written the empty document
C16_Witness ==
    /\ resp.op = "start-empty"
    /\ db = <<>>
    /\ file = Document(<<>>)

\* C17: a Delete whose id matches no product is answered 404 and leaves the
\* collection, the document and the uploads directory as they were.
C17_DeleteUnknownRejected ==
    \A id \in Ids :
        findIndex(db, id) = 0 =>
            \E out \in {DeleteOutcome(id, NoFault)} :
                /\ out.status = 404
                /\ out.db = db
                /\ out.file = file
                /\ out.uploads = uploads

\* a Delete has just been answered 404 in a store that holds a product and
\* its file
C17_Witness ==
    /\ resp = [op |-> "delete", status |-> 404]
    /\ db # <<>>
    /\ uploads # {}
    /\ \E id \in Ids : findIndex(db, id) = 0 /\ DeleteOutcome(id, NoFault).db = db

\* C18: a successful Update deletes no file: every file the uploads directory
\* held before the request, the files of the prior version among them, and
\* every file the request uploaded is still there afterwards.
C18_UpdateKeepsFiles ==
    \A id \in Ids, f \in Fields, files \in Batches[now] :
        \E out \in {UpdateOutcome(id, f, files, NoFault)} :
            out.status = 200 => (uploads \cup Range(files)) \subseteq out.uploads

\* an Update has just been answered 200 for a product that holds the file of
\* its prior version and a newly uploaded one, both on disk
C18_Witness ==
    /\ resp = [op |-> "update", status |-> 200]
    /\ \E i \in 1..Len(db) :
        /\ Len(db[i].images) = 2
        /\ db[i].images[1] # db[i].images[2]
        /\ Range(db[i].images) \subseteq uploads

\* the creation time an id was made from
CreatedAt(p) == DigitsValue(p.id, 0)

\* the ids of a collection, in its order
IdsOf(products) == [k \in 1..Len(products) |-> products[k].id]

\* the collection ps without its entry at index i
Without(ps, i) == [k \in 1..(Len(ps) - 1) |-> IF k < i THEN ps[k] ELSE ps[k + 1]]

\* C19: List returns the products in insertion order: the collection it sends
\* is ordered by creation time; a Create puts its product after all others, an
\* Update keeps every product at its position, and a Delete removes one entry
\* and keeps the others in their order.
C19_InsertionOrder ==
    /\ \A i, j \in 1..Len(db) : i < j => CreatedAt(db[i]) <= CreatedAt(db[j])
    /\ IdsOf(ListBody(db).products) = IdsOf(db)
    /\ \A f \in Fields, files \in Batches[now] :
        /\ \E out \in {CreateOutcome(f, files, NoFault)} :
                out.status = 201 =>
                    /\ Len(out.db) = Len(db) + 1
                    /\ SubSeq(out.db, 1, Len(db)) = db
                    /\ out.body.product = JSONProduct(out.db[Len(out.db)])
        /\ \A id \in Ids :
            \E out \in {UpdateOutcome(id, f, files, NoFault)} :
                out.status = 200 => IdsOf(out.db) = IdsOf(db)
    /\ \A id \in Ids :
        \E out \in {DeleteOutcome(id, NoFault)} :
            out.status = 200 =>
                \E i \in 1..Len(db) : db[i].id = id /\ out.db = Without(db, i)

\* two products created at different times are listed in that order, the
\* last request being an Update answered 200 that added an image to the first
C19_Witness ==
    /\ resp = [op |-> "update", status |-> 200]
    /\ Len(db) = 2
    /\ CreatedAt(db[1]) < CreatedAt(db[2])
    /\ Len(db[1].images) = 2
    /\ IdsOf(ListBody(db).products) = <<db[1].id, db[2].id>>

\* C20: Update is local: a successful Update leaves the id of the updated
\* product as it was, leaves every other product unchanged, and leaves the
\* number of products the same.
C20_UpdateIsLocal ==
    \A id \in Ids, f \in Fields, files \in Batches[now] :
        \E out \in {UpdateOutcome(id, f, files, NoFault)} :
            out.status = 200 =>
                \E i \in 1..Len(db) :
                    /\ db[i].id = id
                    /\ Len(out.db) = Len(db)
                    /\ out.db[i].id = id
                    /\ out.body.product.id = id
                    /\ \A k \in 1..Len(db) : k # i => out.db[k] = db[k]

\* an Update has just been answered 200 in a store of two products that
\* differ in their name: one was rewritten, the other kept
C20_Witness ==
    /\ resp = [op |-> "update", status |-> 200]
    /\ Len(db) = 2
    /\ db[1].name # db[2].name

\* C13: no lost update under concurrency: however requests overlap, a
\* handler that has got to its response leaves the collection and the document
\* as a run of it in one piece at its start would have (so what it
\* acknowledges is in both, and it acknowledges what that run would), and
\* whenever another handler or a List/Get can
\* run, no handler is part-way through: the collection and the document are
\* as the last finished handler left them.
C13_AtomicMutations ==
    /\ Free =>
        /\ \A t \in conc.waiting : t.pc = "check"
        /\ db = conc.stable.db
        /\ file = conc.stable.file
        /\ file = Document(db)
    /\ (~Free /\ conc.running.pc = "respond") =>
        /\ db = conc.running.expect.db
        /\ file = conc.running.expect.file
        /\ conc.running.status \in Success <=> conc.running.expect.status \in Success

\* an Update is about to answer 200 for a product it has added an image to,
\* while another request, which uploaded a file in the meantime, is waiting
C13_Witness ==
    /\ ~Free
    /\ conc.running.op = "update"
    /\ conc.running.pc = "respond"
    /\ conc.running.status = 200
    /\ conc.running.req.files # <<>>
    /\ db # conc.stable.db
    /\ \E t \in conc.waiting : t.req.files # <<>> /\ t.req.files # conc.running.req.files

C22_MemoryMirrorsDisk == file.ok /\ file.products = JSONProducts(db)

\* C23: Delete is all-or-nothing: when an unlink of one of the product's image
\* files fails during a Delete of a product that had all its files, the
\* request is answered 500 and the product is either still in the store with
\* all its files, or out of the store with none of its files left.
C23_DeleteAllOrNothing ==
    \A id \in Ids, fault \in Faults :
        \E idx \in {findIndex(db, id)} :
            (/\ idx # 0
             /\ Range(db[idx].images) \subseteq uploads
             /\ UnlinkExisting(uploads, db[idx].images, fault.failAt).threw) =>
                \E out \in {DeleteOutcome(id, fault)} :
                    /\ out.status = 500
                    /\ \/ /\ out.db = db
                          /\ Range(db[idx].images) \subseteq out.uploads
                       \/ /\ out.db = splice(db, idx)
                          /\ Range(db[idx].images) \cap out.uploads = {}

====
